---- MODULE Spec2Model ----
(***************************************************************************)
(* Model of src/ioctls/mod.rs of kvm-ioctls: the variable-length allocator *)
(* (vec_with_size_in_bytes, vec_with_array_field), the CpuId container     *)
(* over kvm_cpuid2 and the KvmRunWrapper handle over the mmap-ed kvm_run.  *)
(*                                                                         *)
(* Machine integers keep their width, scaled down: u32 has U32Bits bits    *)
(* and usize has UsizeBits bits.  The scaling keeps what holds on x86_64:  *)
(* usize is wider than u32, and a container of 2^U32Bits entries is still  *)
(* allocatable (its byte size is below isize::MAX).  The sizes of the      *)
(* kvm_bindings structs are the real ones.                                 *)
(*                                                                         *)
(* Arithmetic overflow depends on the build: with overflow checks (debug)  *)
(* `+`, `-`, `*` panic, without them (release) they wrap.  overflow_checks *)
(* is chosen at the start and never changes.  A panic leaves the caller's  *)
(* values as they were.  Running out of memory (an abort) is not modelled. *)
(***************************************************************************)
EXTENDS Integers, Sequences, FiniteSets

VARIABLES
    overflow_checks, \* build profile: TRUE = overflow checks on (debug), FALSE = wrapping (release)
    objs,            \* CpuId values held by the caller, by name; NoObj when not constructed
    clone_of,        \* for a container made by clone(): the container it was cloned from
    ret,             \* what the last CpuId operation returned
    nwrites,         \* number of entry writes made through returned slices
    alloc_ret,       \* what the last direct allocator call returned
    kvm_run_ptr,     \* KvmRunWrapper values held by the caller: the stored address
    ctor_addr,       \* the address each KvmRunWrapper was constructed with
    mmap_ret,        \* what the last mmap_from_fd call saw and returned
    thread_ref,      \* per thread: the reference as_mut_ref returned to it
    page             \* contents of the mapped kvm_run pages, by address

vars == <<overflow_checks, objs, clone_of, ret, nwrites, alloc_ret,
          kvm_run_ptr, ctor_addr, mmap_ret, thread_ref, page>>

cpuid_vars == <<objs, clone_of, ret, nwrites>>
kvm_vars == <<kvm_run_ptr, ctor_addr, mmap_ret, thread_ref, page>>

----------------------------------------------------------------------------
(* Bounds *)

U32Bits == 2
\* Largest array_len of the plain range given to CpuId::new
MaxArrayLen == 1
\* Number of entry writes made through slices
MaxWrites == 1
\* Addresses the kernel may hand out for a mapping
MaxAddr == 2
\* Values a thread writes to a kvm_run page
MaxPageVal == 1

----------------------------------------------------------------------------
(* Machine integers *)

UsizeBits == U32Bits + 7
U32_MOD == 2 ^ U32Bits
USIZE_MOD == 2 ^ UsizeBits
USIZE_MAX == USIZE_MOD - 1
ISIZE_MAX == 2 ^ (UsizeBits - 1) - 1

\* size_of::<kvm_cpuid2>(): nent: u32, padding: u32, entries: [] (zero length)
SizeOfHeader == 8
\* size_of::<kvm_cpuid_entry2>(): function, index, flags, eax, ebx, ecx, edx, padding[3]
SizeOfEntry == 40

\* A kvm_cpuid_entry2 overlays this many Vec<kvm_cpuid2> elements
ElemsPerEntry == SizeOfEntry \div SizeOfHeader

Min(a, b) == IF a <= b THEN a ELSE b

\* The result of a computation that may panic
Val(n) == [panic |-> FALSE, val |-> n]
Panicked == [panic |-> TRUE, val |-> 0]

\* usize `+`, `-`, `*`: panic with overflow checks, wrap without
usize_add(a, b, oc) ==
    IF a + b <= USIZE_MAX THEN Val(a + b)
    ELSE IF oc THEN Panicked ELSE Val((a + b) % USIZE_MOD)

usize_sub(a, b, oc) ==
    IF a - b >= 0 THEN Val(a - b)
    ELSE IF oc THEN Panicked ELSE Val((a - b) % USIZE_MOD)

usize_mul(a, b, oc) ==
    IF a * b <= USIZE_MAX THEN Val(a * b)
    ELSE IF oc THEN Panicked ELSE Val((a * b) % USIZE_MOD)

\* `x as u32`: truncation to the low bits
as_u32(x) == x % U32_MOD

----------------------------------------------------------------------------
(* Variable-length allocator *)

\* Vec::with_capacity(n) for elements of size_of_T bytes, then n pushes:
\* panics ("capacity overflow") when the byte size exceeds isize::MAX
vec_with_capacity_filled(size_of_T, n) ==
    IF n * size_of_T > ISIZE_MAX THEN Panicked ELSE Val(n)

\* The number of elements of the returned Vec<T>
vec_with_size_in_bytes(size_of_T, size_in_bytes, oc) ==
    LET s1 == usize_add(size_in_bytes, size_of_T, oc)
        s2 == IF s1.panic THEN Panicked ELSE usize_sub(s1.val, 1, oc)
    IN  IF s2.panic THEN Panicked
        ELSE vec_with_capacity_filled(size_of_T, s2.val \div size_of_T)

vec_with_array_field(size_of_T, size_of_F, count, oc) ==
    LET element_space == usize_mul(count, size_of_F, oc)
        vec_size_bytes == IF element_space.panic THEN Panicked
                          ELSE usize_add(size_of_T, element_space.val, oc)
    IN  IF vec_size_bytes.panic THEN Panicked
        ELSE vec_with_size_in_bytes(size_of_T, vec_size_bytes.val, oc)

----------------------------------------------------------------------------
(* CpuId *)

\* The caller's containers: a is built by CpuId::new with any length, b is a
\* clone or is built by CpuId::new with a length of the plain range
Objs == {"a", "b"}
NoObj == [kvm_cpuid |-> <<>>, allocated_len |-> 0]
\* ret: the operation, the container it was called on, its other argument,
\* the value returned (a slice length, or 1/0 for true/false), whether it
\* panicked, and for mut_entries_slice the header's nent as the call found it
NoRet == [op |-> "none", obj |-> "a", other |-> "a", val |-> 0, panic |-> FALSE, pre |-> 0]

\* kvm_cpuid is the Vec<kvm_cpuid2>, a sequence of SizeOfHeader-byte elements;
\* an element is held as the u32 in its first four bytes (the other four are
\* never written here).  Element HeaderIdx is the header, whose u32 is nent;
\* entry i (from 0) overlays the ElemsPerEntry elements after it, and
\* EntryElem(i, e) is its e-th element (e = 0 holds the `function` field).
HeaderIdx == 1
EntryElem(i, e) == HeaderIdx + i * ElemsPerEntry + e + 1

Live(s) == objs[s] # NoObj
nent_of(o) == o.kvm_cpuid[HeaderIdx]

\* Vec<kvm_cpuid2> of len default elements
DefaultVec(len) == [k \in 1..len |-> 0]

\* CpuId::new; the value is the container, or a panic (arithmetic overflow,
\* capacity overflow, or kvm_cpuid[0] on an empty Vec)
CpuId_new(array_len, oc) ==
    LET v == vec_with_array_field(SizeOfHeader, SizeOfEntry, array_len, oc)
    IN  IF v.panic \/ v.val = 0 THEN Panicked
        ELSE Val([kvm_cpuid |-> [DefaultVec(v.val) EXCEPT ![HeaderIdx] = as_u32(array_len)],
                  allocated_len |-> array_len])

\* CpuId::mut_entries_slice: the container after the call and the length of
\* the returned slice
mut_entries_slice_no_clamp(o) == [obj |-> o, len |-> nent_of(o)]

mut_entries_slice_allocated(o) ==
    [obj |-> [o EXCEPT !.kvm_cpuid[HeaderIdx] = as_u32(o.allocated_len)], len |-> o.allocated_len]

mut_entries_slice(o) ==
    LET clamped == IF nent_of(o) > o.allocated_len
                   THEN [o EXCEPT !.kvm_cpuid[HeaderIdx] = as_u32(o.allocated_len)]
                   ELSE o
    IN  [obj |-> clamped, len |-> nent_of(clamped)]

\* impl Clone for CpuId: a default-filled Vec of the same length, then
\* num_bytes bytes copied over it
clone_header_only(o) ==
    [kvm_cpuid |-> [k \in 1..Len(o.kvm_cpuid) |-> IF k = HeaderIdx THEN o.kvm_cpuid[k] ELSE 0],
     allocated_len |-> o.allocated_len]

clone(o) ==
    LET len == Len(o.kvm_cpuid)
        num_bytes == len * SizeOfHeader
        fresh == DefaultVec(len)
    IN  [kvm_cpuid |-> [k \in 1..Len(fresh) |->
                          IF (k - 1) * SizeOfHeader < num_bytes THEN o.kvm_cpuid[k] ELSE fresh[k]],
         allocated_len |-> o.allocated_len]

\* entries.as_slice(n) of container o: the elements of its first n entries.
\* Outside stands for what the memory past the buffer holds (no u32 of the
\* buffer has this value); one comparison reads that memory through both of
\* its slices, so it sees the same contents twice.
Outside == U32_MOD
as_slice(o, n) ==
    [k \in 1..(n * ElemsPerEntry) |->
        IF HeaderIdx + k <= Len(o.kvm_cpuid) THEN o.kvm_cpuid[HeaderIdx + k] ELSE Outside]

\* impl PartialEq for CpuId: both slices are taken from self, and are read
\* only when the allocated_len are equal (&& short-circuits)
eq(self, other) ==
    LET entries == as_slice(self, self.allocated_len)
        other_entries == as_slice(self, other.allocated_len)
    IN  self.allocated_len = other.allocated_len /\ entries = other_entries

\* Lengths given to CpuId::new: the plain range, one above the u32 range
\* (still allocatable), the largest whose byte size is representable (above
\* isize::MAX), the smallest whose byte size is not representable, and the
\* one whose byte size wraps to zero
TruncLen == U32_MOD + 1
WrapLen == (USIZE_MOD - SizeOfHeader) \div SizeOfEntry + 1
ZeroLen == CHOOSE c \in 0..USIZE_MAX : (SizeOfHeader + c * SizeOfEntry) % USIZE_MOD = 0
SmallLens == 0..MaxArrayLen
ArrayLens == SmallLens \cup {TruncLen, WrapLen - 1, WrapLen, ZeroLen}

\* Values written to an entry field through a slice, and the fields written
\* (element 0 of an entry holds its `function` field)
EntryVals == {U32_MOD - 1}
EntryFields == {0}

New(s, array_len) ==
    /\ ~Live(s)
    /\ LET r == CpuId_new(array_len, overflow_checks)
       IN  /\ objs' = IF r.panic THEN objs ELSE [objs EXCEPT ![s] = r.val]
           /\ ret' = [op |-> "new", obj |-> s, other |-> s, val |-> 0, panic |-> r.panic, pre |-> 0]
    /\ UNCHANGED <<overflow_checks, clone_of, nwrites, alloc_ret, kvm_vars>>

Clone(s, d) ==
    /\ Live(s) /\ ~Live(d)
    /\ objs' = [objs EXCEPT ![d] = clone(objs[s])]
    /\ clone_of' = [clone_of EXCEPT ![d] = s]
    /\ ret' = [op |-> "clone", obj |-> d, other |-> s, val |-> 0, panic |-> FALSE, pre |-> 0]
    /\ UNCHANGED <<overflow_checks, nwrites, alloc_ret, kvm_vars>>

MutEntriesSlice(s) ==
    /\ Live(s)
    /\ LET r == mut_entries_slice(objs[s])
       IN  /\ objs' = [objs EXCEPT ![s] = r.obj]
           /\ ret' = [op |-> "slice", obj |-> s, other |-> s, val |-> r.len, panic |-> FALSE,
                      pre |-> nent_of(objs[s])]
    /\ UNCHANGED <<overflow_checks, clone_of, nwrites, alloc_ret, kvm_vars>>

\* The elements of a buffer that hold nent or a written entry field
StrayTargets(o) ==
    {q \in 1..Len(o.kvm_cpuid) :
        \/ q = HeaderIdx
        \/ \E j \in 0..(Len(o.kvm_cpuid) \div ElemsPerEntry) : \E f \in EntryFields :
             q = EntryElem(j, f)}

\* The caller writes field f of entry i through the slice it holds.  A slice
\* that extends past the buffer (the buffer was sized from a wrapped byte
\* count) makes the write undefined behaviour: it may land in the other
\* container's buffer or in memory that is not modelled.
WriteEntry(s, i, f, v) ==
    /\ ret.op \in {"slice", "write"} /\ ret.obj = s
    /\ i < ret.val
    /\ nwrites < MaxWrites
    /\ nwrites' = nwrites + 1
    /\ ret' = [ret EXCEPT !.op = "write", !.pre = 0]
    /\ IF EntryElem(i, f) <= Len(objs[s].kvm_cpuid)
       THEN objs' = [objs EXCEPT ![s].kvm_cpuid[EntryElem(i, f)] = v]
       ELSE \/ objs' = objs
            \/ \E t \in Objs \ {s} : \E q \in StrayTargets(objs[t]) :
                 objs' = [objs EXCEPT ![t].kvm_cpuid[q] = v]
    /\ UNCHANGED <<overflow_checks, clone_of, alloc_ret, kvm_vars>>

\* The kernel (or the caller) writes the header's nent through as_mut_ptr
AsMutPtrWriteNent(s, v) ==
    /\ Live(s)
    /\ objs' = [objs EXCEPT ![s].kvm_cpuid[HeaderIdx] = v]
    /\ ret' = [op |-> "write_hdr", obj |-> s, other |-> s, val |-> 0, panic |-> FALSE, pre |-> 0]
    /\ UNCHANGED <<overflow_checks, clone_of, nwrites, alloc_ret, kvm_vars>>

\* s == t
Eq(s, t) ==
    /\ Live(s) /\ Live(t)
    /\ ret' = [op |-> "eq", obj |-> s, other |-> t, val |-> IF eq(objs[s], objs[t]) THEN 1 ELSE 0,
               panic |-> FALSE, pre |-> 0]
    /\ UNCHANGED <<overflow_checks, objs, clone_of, nwrites, alloc_ret, kvm_vars>>

NoAlloc == [op |-> "none", arg |-> 0, panic |-> FALSE, len |-> 0]

----------------------------------------------------------------------------
(* KvmRunWrapper *)

\* The caller's KvmRunWrapper values and the threads they are shared with
Handles == {"h1", "h2"}
Threads == {"t1", "t2"}
Addrs == 1..MaxAddr
\* libc::MAP_FAILED, (void *) -1
MAP_FAILED == -1

\* A KvmRunWrapper { kvm_run_ptr }; NoWrapper where none has been constructed
NoWrapper == [mapped |-> FALSE, kvm_run_ptr |-> 0]
NoRef == [held |-> FALSE, handle |-> "h1", addr |-> 0]
NoMmap == [called |-> FALSE, slot |-> "h1", fd |-> 0, size |-> 0, addr |-> 0, errno |-> "none",
           syscalls |-> 0, ok |-> FALSE, err |-> "none"]

\* File descriptors and sizes given to mmap_from_fd
Fds == {-1, 3}
ValidFds == {3}
Sizes == {0, 4096}

\* libc::mmap(null, size, PROT_READ | PROT_WRITE, MAP_SHARED, fd, 0): what the
\* kernel may return, the address (or MAP_FAILED) and the errno it leaves
mmap(fd, size) ==
    IF fd \notin ValidFds THEN {[addr |-> MAP_FAILED, errno |-> "EBADF"]}
    ELSE IF size = 0 THEN {[addr |-> MAP_FAILED, errno |-> "EINVAL"]}
    ELSE {[addr |-> MAP_FAILED, errno |-> "ENOMEM"]}
         \cup {[addr |-> a, errno |-> "none"] :
                 a \in {x \in Addrs : \A h \in Handles : kvm_run_ptr[h] # [mapped |-> TRUE, kvm_run_ptr |-> x]}}

\* KvmRunWrapper::mmap_from_fd, given what its one mmap call returned
mmap_from_fd_unchecked(addr, errno) ==
    [ok |-> TRUE, wrapper |-> [mapped |-> TRUE, kvm_run_ptr |-> addr], err |-> "none", syscalls |-> 1]

mmap_from_fd(addr, errno) ==
    IF addr = MAP_FAILED
    THEN [ok |-> FALSE, wrapper |-> NoWrapper, err |-> errno, syscalls |-> 1]
    ELSE [ok |-> TRUE, wrapper |-> [mapped |-> TRUE, kvm_run_ptr |-> addr], err |-> "none",
          syscalls |-> 1]

\* KvmRunWrapper::as_mut_ref(&self): the wrapper after the call and the
\* address of the returned &mut kvm_run
as_mut_ref_offset(w) == [self |-> w, ref |-> w.kvm_run_ptr + 1]

as_mut_ref(w) == [self |-> w, ref |-> w.kvm_run_ptr]

MmapFromFd(h, fd, size) ==
    /\ ~kvm_run_ptr[h].mapped
    /\ \E m \in mmap(fd, size) :
         LET r == mmap_from_fd(m.addr, m.errno)
         IN  /\ kvm_run_ptr' = [kvm_run_ptr EXCEPT ![h] = r.wrapper]
             /\ ctor_addr' = [ctor_addr EXCEPT ![h] = r.wrapper.kvm_run_ptr]
             /\ mmap_ret' = [called |-> TRUE, slot |-> h, fd |-> fd, size |-> size,
                             addr |-> m.addr, errno |-> m.errno, syscalls |-> r.syscalls,
                             ok |-> r.ok, err |-> r.err]
    /\ UNCHANGED <<overflow_checks, cpuid_vars, alloc_ret, thread_ref, page>>

\* Thread t calls as_mut_ref on the shared wrapper h
AsMutRef(t, h) ==
    /\ kvm_run_ptr[h].mapped
    /\ LET r == as_mut_ref(kvm_run_ptr[h])
       IN  /\ kvm_run_ptr' = [kvm_run_ptr EXCEPT ![h] = r.self]
           /\ thread_ref' = [thread_ref EXCEPT ![t] = [held |-> TRUE, handle |-> h, addr |-> r.ref]]
    /\ UNCHANGED <<overflow_checks, cpuid_vars, alloc_ret, ctor_addr, mmap_ret, page>>

\* Thread t writes the kvm_run it holds a reference to
WritePage(t, v) ==
    /\ thread_ref[t].held
    /\ page' = [page EXCEPT ![thread_ref[t].addr] = v]
    /\ UNCHANGED <<overflow_checks, cpuid_vars, alloc_ret, kvm_run_ptr, ctor_addr, mmap_ret,
                   thread_ref>>

IdleKvm ==
    /\ kvm_run_ptr = [h \in Handles |-> NoWrapper]
    /\ ctor_addr = [h \in Handles |-> 0]
    /\ mmap_ret = NoMmap
    /\ thread_ref = [t \in Threads |-> NoRef]
    /\ page = [a \in Addrs |-> 0]

IdleCpuId ==
    /\ objs = [s \in Objs |-> NoObj]
    /\ clone_of = [s \in Objs |-> "none"]
    /\ ret = NoRet
    /\ nwrites = 0

Init ==
    /\ overflow_checks \in BOOLEAN
    /\ IdleCpuId
    /\ alloc_ret = NoAlloc
    /\ IdleKvm

Next ==
    \/ \E n \in ArrayLens : New("a", n)
    \/ \E n \in SmallLens : Live("a") /\ New("b", n)
    \/ \E s \in Objs : \E d \in Objs : Clone(s, d)
    \/ \E s \in Objs : MutEntriesSlice(s)
    \/ \E s \in Objs : \E i \in 0..(U32_MOD - 1) : \E f \in EntryFields : \E v \in EntryVals :
         WriteEntry(s, i, f, v)
    \/ \E s \in Objs : \E v \in 0..(U32_MOD - 1) : AsMutPtrWriteNent(s, v)
    \/ \E s \in Objs : \E t \in Objs \ {s} : Eq(s, t)

Spec == Init /\ [][Next]_vars

----------------------------------------------------------------------------
(* The allocator called directly, over every usize argument *)

VecWithSizeInBytes(n) ==
    /\ LET r == vec_with_size_in_bytes(SizeOfHeader, n, overflow_checks)
       IN  alloc_ret' = [op |-> "size_in_bytes", arg |-> n, panic |-> r.panic, len |-> r.val]
    /\ UNCHANGED <<overflow_checks, cpuid_vars, kvm_vars>>

VecWithArrayField(count) ==
    /\ LET r == vec_with_array_field(SizeOfHeader, SizeOfEntry, count, overflow_checks)
       IN  alloc_ret' = [op |-> "array_field", arg |-> count, panic |-> r.panic, len |-> r.val]
    /\ UNCHANGED <<overflow_checks, cpuid_vars, kvm_vars>>

NextAlloc ==
    \/ \E n \in 0..USIZE_MAX : VecWithSizeInBytes(n)
    \/ \E count \in 0..USIZE_MAX : VecWithArrayField(count)

SpecAlloc == Init /\ [][NextAlloc]_vars

----------------------------------------------------------------------------
(* The KvmRunWrapper handles and the threads sharing them *)

NextKvmRun ==
    \/ \E h \in Handles : \E fd \in Fds : \E size \in Sizes : MmapFromFd(h, fd, size)
    \/ \E t \in Threads : \E h \in Handles : AsMutRef(t, h)
    \/ \E t \in Threads : \E v \in 0..MaxPageVal : WritePage(t, v)

SpecKvmRun == Init /\ [][NextKvmRun]_vars

----------------------------------------------------------------------------
(* Claims *)

\* The entries of a container over its allocated_len, for a container whose
\* buffer holds them all
EntriesOf(o) == [k \in 1..(o.allocated_len * ElemsPerEntry) |-> o.kvm_cpuid[HeaderIdx + k]]
Holds(o) == HeaderIdx + o.allocated_len * ElemsPerEntry <= Len(o.kvm_cpuid)

\* C1: whatever was done before (external writes of nent, earlier slices,
\* clones), the slice mut_entries_slice returns is no longer than
\* allocated_len, and the header's nent is at most allocated_len on return.
C1_SliceWithinAllocated ==
    ret.op = "slice" =>
        /\ ret.val <= objs[ret.obj].allocated_len
        /\ nent_of(objs[ret.obj]) <= objs[ret.obj].allocated_len

\* C1 witness: a clone whose nent was forced above allocated_len has just
\* returned a slice.
C1_Witness ==
    /\ ret.op = "slice"
    /\ clone_of[ret.obj] \in Objs
    /\ ret.pre > objs[ret.obj].allocated_len

\* C2 (as stated): right after CpuId::new(max_entries), for any usize
\* max_entries, nent equals max_entries and mut_entries_slice returns a
\* slice of exactly max_entries entries.
C2_NewNentIsMaxEntries ==
    (ret.op = "new" /\ ~ret.panic) =>
        /\ nent_of(objs[ret.obj]) = objs[ret.obj].allocated_len
        /\ mut_entries_slice(objs[ret.obj]).len = objs[ret.obj].allocated_len

\* C3 (as stated): for every count the buffer vec_with_array_field returns
\* holds at least size_of(T) + count * size_of(F) bytes, and
\* vec_with_size_in_bytes(n) returns ceil(n / size_of(T)) elements.
C3_BufferCoversRequest ==
    /\ (alloc_ret.op = "array_field" /\ ~alloc_ret.panic) =>
          alloc_ret.len * SizeOfHeader >= SizeOfHeader + alloc_ret.arg * SizeOfEntry
    /\ (alloc_ret.op = "size_in_bytes" /\ ~alloc_ret.panic) =>
          /\ alloc_ret.len = (alloc_ret.arg + SizeOfHeader - 1) \div SizeOfHeader
          /\ alloc_ret.len * SizeOfHeader >= alloc_ret.arg

\* C4 (as stated): once b is a clone of a, no write to b, to its entries
\* through a slice or to its header through as_mut_ptr, changes a.
C4_CloneSharesNothing ==
    [][\A d \in Objs :
          (ret'.op \in {"write", "write_hdr"} /\ ret'.obj = d /\ clone_of[d] \in Objs)
              => objs'[clone_of[d]] = objs[clone_of[d]]]_vars

\* C5: clone() returns a container whose buffer has the size of the
\* original's and the same contents, header and trailing entries, and the
\* same allocated_len, whatever nent says.
C5_CloneIsByteCopy ==
    ret.op = "clone" =>
        /\ Len(objs[ret.obj].kvm_cpuid) = Len(objs[ret.other].kvm_cpuid)
        /\ \A k \in 1..Len(objs[ret.other].kvm_cpuid) :
              objs[ret.obj].kvm_cpuid[k] = objs[ret.other].kvm_cpuid[k]
        /\ objs[ret.obj].allocated_len = objs[ret.other].allocated_len

\* C5 witness: a container with a written entry and nent above allocated_len
\* has just been cloned.
C5_Witness ==
    /\ ret.op = "clone"
    /\ nent_of(objs[ret.other]) > objs[ret.other].allocated_len
    /\ \E k \in 1..Len(objs[ret.other].kvm_cpuid) : k # HeaderIdx /\ objs[ret.other].kvm_cpuid[k] # 0

\* C6: mmap_from_fd makes one mmap call; when it returned MAP_FAILED the
\* result is Err with the errno the call left and no wrapper exists, and
\* otherwise the result is Ok with a wrapper storing the returned address.
C6_MmapResult ==
    mmap_ret.called =>
        /\ mmap_ret.syscalls = 1
        /\ mmap_ret.addr = MAP_FAILED =>
              /\ ~mmap_ret.ok
              /\ mmap_ret.err = mmap_ret.errno
              /\ kvm_run_ptr[mmap_ret.slot] = NoWrapper
        /\ mmap_ret.addr # MAP_FAILED =>
              /\ mmap_ret.ok
              /\ kvm_run_ptr[mmap_ret.slot] = [mapped |-> TRUE, kvm_run_ptr |-> mmap_ret.addr]

\* C6 witness: a mapping has failed on a bad descriptor after another one
\* succeeded.
C6_Witness ==
    /\ mmap_ret.called /\ mmap_ret.addr = MAP_FAILED /\ mmap_ret.errno = "EBADF"
    /\ \E h \in Handles : kvm_run_ptr[h].mapped

\* C7 (as stated): a == b exactly when the allocated_len are equal and the
\* entries of a equal the entries of b over that length.
C7_EqComparesEntries ==
    (ret.op = "eq" /\ Holds(objs[ret.obj]) /\ Holds(objs[ret.other])) =>
        ((ret.val = 1) <=>
            /\ objs[ret.obj].allocated_len = objs[ret.other].allocated_len
            /\ EntriesOf(objs[ret.obj]) = EntriesOf(objs[ret.other]))

\* C8: a constructed wrapper's stored address never changes, and every
\* reference as_mut_ref hands to a thread is to the address stored at
\* construction.
C8_AddressFixed ==
    [][/\ \A h \in Handles : kvm_run_ptr[h].mapped => kvm_run_ptr'[h] = kvm_run_ptr[h]
       /\ \A h \in Handles : kvm_run_ptr'[h].mapped =>
             kvm_run_ptr'[h].kvm_run_ptr = ctor_addr'[h]
       /\ \A t \in Threads : thread_ref'[t].held =>
             thread_ref'[t].addr = ctor_addr'[thread_ref'[t].handle]]_vars

\* C8 witness: both threads hold a reference obtained from the same wrapper
\* and the page behind it has been written.
C8_Witness ==
    /\ \A t \in Threads : thread_ref[t].held /\ thread_ref[t].handle = "h1"
    /\ page[kvm_run_ptr["h1"].kvm_run_ptr] # 0

\* C9 (as stated): when size_of(header) + count * size_of(element), or the
\* rounding step size_in_bytes + size_of(T) - 1, does not fit usize, the
\* allocator panics and returns no buffer.
C9_OverflowPanics ==
    /\ (alloc_ret.op = "array_field" /\ SizeOfHeader + alloc_ret.arg * SizeOfEntry > USIZE_MAX)
          => alloc_ret.panic
    /\ (alloc_ret.op = "size_in_bytes" /\ alloc_ret.arg + SizeOfHeader - 1 > USIZE_MAX)
          => alloc_ret.panic

\* C10: mut_entries_slice returns a slice of min(nent, allocated_len)
\* entries and leaves nent at that value; allocated_len and every entry are
\* unchanged, and a second call returns the same length.
C10_SliceIsMin ==
    [][ret'.op = "slice" =>
          LET before == objs[ret'.obj]
              after == objs'[ret'.obj]
          IN  /\ ret'.val = Min(nent_of(before), before.allocated_len)
              /\ nent_of(after) = ret'.val
              /\ after.allocated_len = before.allocated_len
              /\ Len(after.kvm_cpuid) = Len(before.kvm_cpuid)
              /\ \A k \in 1..Len(before.kvm_cpuid) :
                    k # HeaderIdx => after.kvm_cpuid[k] = before.kvm_cpuid[k]
              /\ mut_entries_slice(after).len = ret'.val]_vars

\* C10 witness: a slice was returned by a call that found nent above
\* allocated_len and rewrote it, on a container with a written entry.
C10_Witness ==
    /\ ret.op = "slice"
    /\ ret.pre > objs[ret.obj].allocated_len
    /\ ret.val = objs[ret.obj].allocated_len
    /\ nwrites > 0

====
